---------------------------- MODULE Spec2Model ----------------------------
(***************************************************************************)
(* Weighted PageRank, concurrent variant (Graph64): Link, Rank and Reset.  *)
(*                                                                         *)
(* The graph is the dense node index of the source: index maps external    *)
(* ids to positions of nodes, count is the next position.  Rank is a main  *)
(* routine that launches one goroutine ("unit") per node for the           *)
(* normalization pass and for every update pass, at most NumCPU at a time, *)
(* and joins them through the buffered channel done.                       *)
(*                                                                         *)
(* float64 values are modelled as exact rationals <<n, d>> in lowest terms *)
(* with d > 0; d = 0 encodes the IEEE specials: <<1,0>> is +Inf, <<-1,0>>  *)
(* is -Inf and <<0,0>> is NaN.  Rounding is not modelled.                  *)
(***************************************************************************)
EXTENDS Integers, Sequences, FiniteSets, TLC

\* ------------------------------------------------------------------ bounds

\* Link calls in one behaviour.
MaxLinks == 2

\* Largest value of the package variable NumCPU.
MaxCPU == 2

\* Rank calls in one behaviour of the sequential specification.
MaxRanks == 2

\* Reset calls in one behaviour of the sequential specification.
MaxResets == 1

\* Buffer of the completion channel: make(chan bool, 8).
DoneCap == 8

\* Capacity NewGraph64 and Reset use when no size is given.
DefaultCapacity == 8

\* A cap on the units in flight that the buffer of done cannot hold, and a
\* number of nodes that keeps that many units busy.
WideCPU == DoneCap + 1

WideNodes == WideCPU

\* External ids.  They are opaque map keys, so a Link call takes a fresh id
\* in increasing order; a chain of MaxLinks edges touches MaxLinks + 1 ids.
Ids == 1..(IF MaxLinks + 1 > WideNodes THEN MaxLinks + 1 ELSE WideNodes)

\* ------------------------------------------------------- float64 arithmetic

RECURSIVE GCD(_, _)
GCD(x, y) == IF y = 0 THEN x ELSE GCD(y, x % y)

Abs(x) == IF x < 0 THEN -x ELSE x

Sign(x) == IF x < 0 THEN -1 ELSE IF x > 0 THEN 1 ELSE 0

\* The float64 with value n/d (d >= 0), in lowest terms.
Norm(n, d) ==
    IF d = 0 THEN <<Sign(n), 0>>
    ELSE LET g == GCD(Abs(n), d) IN <<n \div g, d \div g>>

FromInt(n) == <<n, 1>>

Zero == <<0, 1>>

One == <<1, 1>>

IsNaN(x) == x[1] = 0 /\ x[2] = 0

IsInf(x) == x[1] # 0 /\ x[2] = 0

\* Op(x, y) with each argument evaluated once.
Strict(Op(_, _), x, y) == CHOOSE r \in {Op(u, v) : u \in {x}, v \in {y}} : TRUE

Add(x, y) ==
    IF IsInf(x) /\ IsInf(y)
    THEN (IF x[1] = y[1] THEN x ELSE <<0, 0>>)
    ELSE IF x[2] = 0 \/ y[2] = 0
    THEN (IF IsNaN(x) \/ IsNaN(y) THEN <<0, 0>> ELSE IF IsInf(x) THEN x ELSE y)
    ELSE LET g == GCD(x[2], y[2])
             l == (x[2] \div g) * y[2]
         IN  Norm(x[1] * (l \div x[2]) + y[1] * (l \div y[2]), l)

\* x + y
RAdd(x, y) == Strict(Add, x, y)

\* -x
RNeg(x) == LET v == Strict(Add, x, Zero) IN <<-v[1], v[2]>>

\* x - y
RSub(x, y) == Strict(Add, x, RNeg(y))

Mul(x, y) ==
    IF x[2] = 0 \/ y[2] = 0
    THEN <<Sign(x[1]) * Sign(y[1]), 0>>
    ELSE LET g1 == GCD(Abs(x[1]), y[2])
             g2 == GCD(Abs(y[1]), x[2])
         IN  <<(x[1] \div g1) * (y[1] \div g2), (x[2] \div g2) * (y[2] \div g1)>>

\* x * y
RMul(x, y) == Strict(Mul, x, y)

Div(x, y) ==
    IF IsNaN(x) \/ IsNaN(y) THEN <<0, 0>>
    ELSE IF IsInf(y) THEN (IF IsInf(x) THEN <<0, 0>> ELSE Zero)
    ELSE IF y[1] = 0 THEN <<Sign(x[1]), 0>>
    ELSE Mul(x, IF y[1] < 0 THEN <<-y[2], -y[1]>> ELSE <<y[2], y[1]>>)

\* x / y
RDiv(x, y) == Strict(Div, x, y)

Less(x, y) ==
    IF IsNaN(x) \/ IsNaN(y) THEN FALSE
    ELSE IF IsInf(x) \/ IsInf(y)
    THEN (IF IsInf(x) /\ IsInf(y) THEN x[1] < y[1]
          ELSE IF IsInf(x) THEN x[1] < 0 ELSE y[1] > 0)
    ELSE x[1] * y[2] < y[1] * x[2]

\* x < y (false when either is NaN)
RLt(x, y) == Strict(Less, x, y)

\* x > y
RGt(x, y) == Strict(Less, y, x)

LessEq(x, y) == ~IsNaN(x) /\ ~IsNaN(y) /\ ~Less(y, x)

\* x <= y
RLe(x, y) == Strict(LessEq, x, y)

\* x == 0
RIsZero(x) == Strict(LessEq, x, Zero) /\ Strict(LessEq, Zero, x)

\* The sum of f[k] over k in S, added in any order (addition is exact).
RECURSIVE RSum(_, _)
RSum(f, S) ==
    IF S = {} THEN Zero
    ELSE LET k == CHOOSE x \in S : TRUE IN Strict(Add, f[k], RSum(f, S \ {k}))

\* -------------------------------------------------------------- the inputs

\* Edge weights given to Link.
Weights == {FromInt(1), FromInt(2)}

\* Damping factors given to Rank, in [0, 1).
Alphas == {Zero, <<1, 2>>}

\* Convergence thresholds given to Rank, > 0.
Epsilons == {<<1, 8>>, One}

\* The variadic size argument of NewGraph64 and Reset.
Sizes == {<<>>, <<0>>}

\* ---------------------------------------------------------------- the state

VARIABLES
    NumCPU,      \* package variable: the cap on units in flight
    capacity,    \* capacity asked of make() for index and nodes
    count,       \* Graph64.count
    index,       \* Graph64.index: external id -> position in nodes
    nodes,       \* Graph64.nodes: position -> Node64
    pc,          \* where the caller or Rank's main routine stands
    alpha,       \* Rank's parameter
    epsilon,     \* Rank's parameter
    Delta,       \* Rank's local
    inverse,     \* Rank's local 1 / len(nodes)
    leak,        \* Rank's local
    a,           \* Rank's local: the current weight slot
    b,           \* Rank's local: the next weight slot
    i,           \* pool: next node to launch
    flight,      \* pool: units launched and not yet received
    j,           \* pool: receives made by the draining loop
    adjustment,  \* Rank's local, one per iteration
    done,        \* values buffered in the channel done
    units,       \* goroutines launched and not yet returned
    keys,        \* keys the callback loop has still to visit
    calls,       \* per id, the ranks the callback got in the latest Rank call
    links,       \* history: the Link calls since construction or Reset
    rankNo,      \* history: Rank calls since construction or Reset
    prev,        \* history: the Rank calls returned since the last Link or Reset
    fresh,       \* history: a graph from NewGraph64() given the calls since Reset
    pass,        \* history: passes started by this Rank call
    launched,    \* history: nodes launched in this pass, in order
    finished,    \* history: nodes of this pass whose unit signalled done
    budget       \* calls the caller may still make

graph == <<capacity, count, index, nodes>>

frame == <<alpha, epsilon, Delta, inverse, leak, a, b, adjustment>>

pool == <<i, flight, j, done, units, pass, launched, finished>>

history == <<links, rankNo, prev, fresh>>

vars == <<NumCPU, graph, pc, frame, pool, keys, calls, history, budget>>

\* ------------------------------------------------------------------ Node64

\* The zero value Node64{}: an unlocked RWMutex, weight [0, 0], no edges.
Node64Zero ==
    [weight |-> [k \in 0..1 |-> Zero], outbound |-> Zero, edges |-> <<>>,
     readers |-> 0, writer |-> FALSE]

\* len(ns)
Len0(ns) == Cardinality(DOMAIN ns)

\* append(ns, n)
AppendNode(ns, n) == ns @@ (Len0(ns) :> n)

\* ------------------------------------------------------------- construction

\* capacity := 8; if len(size) == 1 { capacity = size[0] }
Capacity(size) == IF Len(size) = 1 THEN size[1] ELSE DefaultCapacity

\* NewGraph64(size...): count is left at its zero value.
NewGraph64(size) ==
    [capacity |-> Capacity(size), count |-> 0, index |-> <<>>, nodes |-> <<>>]

\* A graph as NewGraph64() returns it, on which nothing was called yet.
Fresh == [graph |-> NewGraph64(<<>>), calls |-> [id \in Ids |-> <<>>]]

\* -------------------------------------------------------------------- Link

\* s, ok := g.index[id]; if !ok { s = g.count; g.index[id] = s;
\*   g.nodes = append(g.nodes, Node64{}); g.count++ }
\* The graph after the lookup; the position found is Position(g, id).
Position(g, id) == IF id \in DOMAIN g.index THEN g.index[id] ELSE g.count

\* Ensure with a bug: count is not incremented.
EnsureSameCount(g, id) ==
    IF id \in DOMAIN g.index THEN g
    ELSE [g EXCEPT !.index = @ @@ (id :> g.count),
                   !.nodes = AppendNode(@, Node64Zero)]

Ensure(g, id) ==
    IF id \in DOMAIN g.index THEN g
    ELSE [g EXCEPT !.index = @ @@ (id :> g.count),
                   !.nodes = AppendNode(@, Node64Zero),
                   !.count = @ + 1]

\* AddEdge with a bug: the weight is stored, not added.
SetEdge(edges, t, weight) ==
    IF t \in DOMAIN edges THEN [edges EXCEPT ![t] = weight]
    ELSE edges @@ (t :> weight)

\* edges[t] += weight, on a nil or non-nil map
AddEdge(edges, t, weight) ==
    IF t \in DOMAIN edges THEN [edges EXCEPT ![t] = RAdd(@, weight)]
    ELSE edges @@ (t :> RAdd(Zero, weight))

\* The graph after Link(source, target, weight); the index expressions
\* g.nodes[s] panic when s is out of range.
LinkGraph(g, source, target, weight) ==
    LET s  == Position(g, source)
        g1 == Ensure(g, source)
        g2 == [g1 EXCEPT !.nodes[s].outbound = RAdd(@, weight)]
        t  == Position(g2, target)
        g3 == Ensure(g2, target)
    IN  [g3 EXCEPT !.nodes[s].edges = AddEdge(@, t, weight)]

LinkPanics(g, source) == Position(g, source) \notin DOMAIN Ensure(g, source).nodes

TheGraph == [capacity |-> capacity, count |-> count, index |-> index, nodes |-> nodes]

\* Ids are opaque: a call may name the ids already known and the next one.
MaxKnown == IF DOMAIN index = {} THEN 0
            ELSE CHOOSE m \in DOMAIN index : \A k \in DOMAIN index : k <= m

Link(source, target, weight) ==
    /\ pc = "idle"
    /\ budget.links > 0
    /\ source <= MaxKnown + 1
    /\ target <= (IF source > MaxKnown THEN source ELSE MaxKnown) + 1
    /\ budget' = [budget EXCEPT !.links = @ - 1]
    /\ IF LinkPanics(TheGraph, source)
       THEN /\ pc' = "panic"
            /\ UNCHANGED <<graph, history>>
       ELSE LET g == LinkGraph(TheGraph, source, target, weight) IN
            /\ count' = g.count
            /\ index' = g.index
            /\ nodes' = g.nodes
            /\ links' = Append(links, <<source, target, weight>>)
            /\ prev' = <<>>
            /\ fresh' = [fresh EXCEPT
                             !.graph = LinkGraph(@, source, target, weight)]
            /\ UNCHANGED <<pc, capacity, rankNo>>
    /\ UNCHANGED <<NumCPU, frame, pool, keys, calls>>

\* ------------------------------------------------------------------- Reset

\* ResetGraph with a bug: count keeps its value.
ResetKeepsCount(g, size) ==
    [g EXCEPT !.index = <<>>, !.nodes = <<>>, !.capacity = Capacity(size)]

\* The graph after Reset(size...).
ResetGraph(g, size) ==
    [g EXCEPT !.count = 0, !.index = <<>>, !.nodes = <<>>,
              !.capacity = Capacity(size)]

Reset(size) ==
    /\ pc = "idle"
    /\ budget.resets > 0
    /\ budget' = [budget EXCEPT !.resets = @ - 1]
    /\ LET g == ResetGraph(TheGraph, size) IN
       /\ capacity' = g.capacity
       /\ count' = g.count
       /\ index' = g.index
       /\ nodes' = g.nodes
    /\ links' = <<>>
    /\ rankNo' = 0
    /\ prev' = <<>>
    /\ fresh' = Fresh
    /\ UNCHANGED <<NumCPU, pc, frame, pool, keys, calls>>

\* -------------------------------------------------------- Rank: the pool

\* A goroutine started by "go normalize(&nodes[i])" or "go update(adjustment,
\* &nodes[i])": the node it was given, where it stands, and its locals.
Unit(kind, node, adj) ==
    [pass |-> pass, node |-> node, pc |-> kind, adjustment |-> adj,
     aa |-> Zero, bb |-> Zero, rest |-> {}, target |-> 0]

\* go f(&nodes[i]); flight++; i++
Launch(kind, adj) ==
    /\ units' = units \cup {Unit(kind, i, adj)}
    /\ launched' = Append(launched, i)
    /\ flight' = flight + 1
    /\ i' = i + 1

\* MayLaunch with a bug: one unit more than the cap is let through.
MayLaunchOneMore == i < Len0(nodes) /\ flight <= NumCPU

\* The guard of the first loop of a pass.
MayLaunch == i < Len0(nodes) /\ flight < NumCPU

\* <-done
Receive ==
    /\ done > 0
    /\ done' = done - 1

\* for i < len(nodes) && flight < NumCPU { go normalize(&nodes[i]); ... }
NormalizeLaunch ==
    /\ pc = "normalize"
    /\ IF MayLaunch
       THEN /\ Launch("normalize", Zero)
            /\ UNCHANGED pc
       ELSE /\ pc' = "normalize_refill"
            /\ UNCHANGED <<i, flight, units, launched>>
    /\ UNCHANGED <<NumCPU, graph, frame, j, done, pass, finished, keys, calls,
                   history, budget>>

\* for i < len(nodes) { <-done; flight--; go normalize(&nodes[i]); flight++; i++ }
NormalizeRefill ==
    /\ pc = "normalize_refill"
    /\ IF i < Len0(nodes)
       THEN /\ Receive
            /\ units' = units \cup {Unit("normalize", i, Zero)}
            /\ launched' = Append(launched, i)
            /\ i' = i + 1
            /\ UNCHANGED <<pc, j>>
       ELSE /\ pc' = "normalize_drain"
            /\ j' = 0
            /\ UNCHANGED <<i, done, units, launched>>
    /\ UNCHANGED <<NumCPU, graph, frame, flight, pass, finished, keys, calls,
                   history, budget>>

\* DrainMore with a bug: the loop runs once too often.
DrainOneMore == j <= flight

\* DrainMore with a bug: the loop stops one receive short.
DrainOneLess == j < flight - 1

\* The guard of the last loop of a pass.
DrainMore == j < flight

\* for j := 0; j < flight; j++ { <-done }
NormalizeDrain ==
    /\ pc = "normalize_drain"
    /\ IF DrainMore
       THEN /\ Receive
            /\ j' = j + 1
            /\ UNCHANGED <<pc, i, flight>>
       ELSE /\ pc' = "initialize"
            /\ j' = 0
            /\ i' = 0
            /\ flight' = 0
            /\ UNCHANGED done
    /\ UNCHANGED <<NumCPU, graph, frame, units, pass, launched, finished, keys,
                   calls, history, budget>>

\* -------------------------------------------------- Rank: the main routine

\* The nodes after "nodes[source].weight[a] = inverse" for every source.
InitializedNodes(ns, slot, inv) ==
    [n \in DOMAIN ns |-> [ns[n] EXCEPT !.weight[slot] = inv]]

\* The positions with outbound == 0.
Dangling(ns) == {n \in DOMAIN ns : RIsZero(ns[n].outbound)}

\* InitialLeak with a bug: the dangling nodes' share is not counted.
InitialLeakNone(ns, inv) == Zero

\* leak after the initialization loop: inverse added once per dangling node.
InitialLeak(ns, inv) == RSum([n \in DOMAIN ns |-> inv], Dangling(ns))

\* leak := 0; a, b := 0, 1; for source := range nodes { ... }
Initialize ==
    /\ pc = "initialize"
    /\ a' = 0
    /\ b' = 1
    /\ nodes' = InitializedNodes(nodes, 0, inverse)
    /\ leak' = InitialLeak(nodes, inverse)
    /\ pc' = "loop"
    /\ UNCHANGED <<NumCPU, capacity, count, index, alpha, epsilon, Delta,
                   inverse, adjustment, pool, keys, calls, history, budget>>

\* Adjustment with a bug: the dangling nodes' share is left out.
AdjustmentNoLeak(al, lk, inv) == RMul(RSub(One, al), inv)

\* adjustment := (1-alpha)*inverse + alpha*leak*inverse
Adjustment(al, lk, inv) ==
    RAdd(RMul(RSub(One, al), inv), RMul(RMul(al, lk), inv))

\* RangeIndex with a bug: only the ids that have outbound edges are visited.
RangeSources == {key \in DOMAIN index : DOMAIN nodes[index[key]].edges # {}}

\* The keys "for key, value := range g.index" visits.
RangeIndex == DOMAIN index

\* The loop condition Delta > epsilon.
Continue(d, ep) == RGt(d, ep)

\* for Delta > epsilon { adjustment := ...; i, flight := 0, 0; ... }; once the
\* condition fails Rank turns to "for key, value := range g.index".
Loop ==
    /\ pc = "loop"
    /\ IF Continue(Delta, epsilon)
       THEN /\ adjustment' = Adjustment(alpha, leak, inverse)
            /\ i' = 0
            /\ flight' = 0
            /\ pass' = pass + 1
            /\ launched' = <<>>
            /\ finished' = {}
            /\ pc' = "update"
            /\ UNCHANGED keys
       ELSE /\ keys' = RangeIndex
            /\ pc' = "callback"
            /\ UNCHANGED <<adjustment, i, flight, pass, launched, finished>>
    /\ UNCHANGED <<NumCPU, graph, alpha, epsilon, Delta, inverse, leak, a, b,
                   j, done, units, calls, history, budget>>

\* for i < len(nodes) && flight < NumCPU { go update(adjustment, &nodes[i]); ... }
UpdateLaunch ==
    /\ pc = "update"
    /\ IF MayLaunch
       THEN /\ Launch("rlock", adjustment)
            /\ UNCHANGED pc
       ELSE /\ pc' = "update_refill"
            /\ UNCHANGED <<i, flight, units, launched>>
    /\ UNCHANGED <<NumCPU, graph, frame, j, done, pass, finished, keys, calls,
                   history, budget>>

\* for i < len(nodes) { <-done; flight--; go update(...); flight++; i++ }
UpdateRefill ==
    /\ pc = "update_refill"
    /\ IF i < Len0(nodes)
       THEN /\ Receive
            /\ units' = units \cup {Unit("rlock", i, adjustment)}
            /\ launched' = Append(launched, i)
            /\ i' = i + 1
            /\ UNCHANGED <<pc, j>>
       ELSE /\ pc' = "update_drain"
            /\ j' = 0
            /\ UNCHANGED <<i, done, units, launched>>
    /\ UNCHANGED <<NumCPU, graph, frame, flight, pass, finished, keys, calls,
                   history, budget>>

\* for j := 0; j < flight; j++ { <-done }
UpdateDrain ==
    /\ pc = "update_drain"
    /\ IF DrainMore
       THEN /\ Receive
            /\ j' = j + 1
            /\ UNCHANGED <<pc, i, flight>>
       ELSE /\ pc' = "delta"
            /\ j' = 0
            /\ i' = 0
            /\ flight' = 0
            /\ UNCHANGED done
    /\ UNCHANGED <<NumCPU, graph, frame, units, pass, launched, finished, keys,
                   calls, history, budget>>

\* |aa - bb| as the code takes it: the difference, negated when below 0.
AbsDifference(aa, bb) ==
    LET difference == RSub(aa, bb)
    IN  IF RLt(difference, Zero) THEN RNeg(difference) ELSE difference

\* Delta after the measuring loop.
MeasuredDelta(ns, cur, nxt) ==
    RSum([n \in DOMAIN ns |-> AbsDifference(ns[n].weight[cur], ns[n].weight[nxt])],
         DOMAIN ns)

\* leak after the measuring loop.
MeasuredLeak(ns, nxt) ==
    RSum([n \in DOMAIN ns |-> ns[n].weight[nxt]], Dangling(ns))

\* The nodes after "nodes[source].weight[a] = 0" for every source.
ZeroedNodes(ns, cur) ==
    [n \in DOMAIN ns |-> [ns[n] EXCEPT !.weight[cur] = Zero]]

\* Measure with a bug: the slots do not change their roles.
MeasureNoSwap ==
    /\ pc = "delta"
    /\ Delta' = MeasuredDelta(nodes, a, b)
    /\ leak' = MeasuredLeak(nodes, b)
    /\ nodes' = ZeroedNodes(nodes, a)
    /\ pc' = "loop"
    /\ UNCHANGED <<NumCPU, capacity, count, index, alpha, epsilon, inverse,
                   a, b, adjustment, pool, keys, calls, history, budget>>

\* Delta, leak = 0, 0; for source := range nodes { ... }; a, b = b, a
Measure ==
    /\ pc = "delta"
    /\ Delta' = MeasuredDelta(nodes, a, b)
    /\ leak' = MeasuredLeak(nodes, b)
    /\ nodes' = ZeroedNodes(nodes, a)
    /\ a' = b
    /\ b' = a
    /\ pc' = "loop"
    /\ UNCHANGED <<NumCPU, capacity, count, index, alpha, epsilon, inverse,
                   adjustment, pool, keys, calls, history, budget>>

\* callback(key, nodes[value].weight[a]), for one key of the range
Callback(key) ==
    /\ pc = "callback"
    /\ key \in keys
    /\ keys' = keys \ {key}
    /\ calls' = [calls EXCEPT ![key] = Append(@, nodes[index[key]].weight[a])]
    /\ UNCHANGED <<NumCPU, graph, pc, frame, pool, history, budget>>

\* Rank returns: its locals are gone, the node weights stay.
Return ==
    /\ pc = "callback"
    /\ keys = {}
    /\ pc' = "idle"
    /\ prev' = <<[alpha |-> alpha, epsilon |-> epsilon, calls |-> calls]>>
               \o SubSeq(prev, 1, IF Len(prev) > 0 THEN 1 ELSE 0)
    /\ Delta' = Zero
    /\ inverse' = Zero
    /\ leak' = Zero
    /\ adjustment' = Zero
    /\ a' = 0
    /\ b' = 1
    /\ pass' = 0
    /\ launched' = <<>>
    /\ finished' = {}
    /\ UNCHANGED <<NumCPU, graph, alpha, epsilon, i, flight, j, done, units,
                   keys, calls, links, rankNo, fresh, budget>>

\* ------------------------------------------------------- Rank: the units

\* sync.RWMutex: RLock waits for the writer, Lock for the writer and readers.
CanRLock(node) == ~node.writer

\* CanLock with a bug: the lock excludes nobody.
CanLockAny(node) == TRUE

\* Lock waits for the writer and for the readers.
CanLock(node) == ~node.writer /\ node.readers = 0

\* The unit u goes on as v.
Becomes(u, v) == units' = (units \ {u}) \cup {v}

\* "for target, weight := range node.edges" takes its next key, in any order
\* (Go's map iteration); with none left the unit goes on to node.Lock().
NextEdge(u, v) ==
    IF v.rest = {}
    THEN Becomes(u, [v EXCEPT !.pc = "lock"])
    ELSE \E t \in v.rest :
            Becomes(u, [v EXCEPT !.pc = "tlock", !.target = t, !.rest = @ \ {t}])

\* if outbound := node.outbound; outbound > 0 { for target := range node.edges
\*   { node.edges[target] /= outbound } }
NormalizedEdges(node) ==
    IF RGt(node.outbound, Zero)
    THEN [t \in DOMAIN node.edges |-> RDiv(node.edges[t], node.outbound)]
    ELSE node.edges

\* normalize(node), up to its send: the unit alone touches its node's edges.
Normalize(u) ==
    /\ u \in units
    /\ u.pc = "normalize"
    /\ nodes' = [nodes EXCEPT ![u.node].edges = NormalizedEdges(nodes[u.node])]
    /\ Becomes(u, [u EXCEPT !.pc = "send"])
    /\ UNCHANGED <<NumCPU, capacity, count, index, pc, frame, i, flight, j, done,
                   pass, launched, finished, keys, calls, history, budget>>

\* node.RLock()
UpdateRLock(u) ==
    /\ u \in units
    /\ u.pc = "rlock"
    /\ CanRLock(nodes[u.node])
    /\ nodes' = [nodes EXCEPT ![u.node].readers = @ + 1]
    /\ Becomes(u, [u EXCEPT !.pc = "read"])
    /\ UNCHANGED <<NumCPU, capacity, count, index, pc, frame, i, flight, j, done,
                   pass, launched, finished, keys, calls, history, budget>>

\* aa := alpha * node.weight[a]
Damped(al, w) == RMul(al, w)

\* aa := alpha * node.weight[a]; node.RUnlock(); and the range's first key
UpdateRead(u) ==
    /\ u \in units
    /\ u.pc = "read"
    /\ nodes' = [nodes EXCEPT ![u.node].readers = @ - 1]
    /\ NextEdge(u, [u EXCEPT !.aa = Damped(alpha, nodes[u.node].weight[a]),
                             !.rest = DOMAIN nodes[u.node].edges])
    /\ UNCHANGED <<NumCPU, capacity, count, index, pc, frame, i, flight, j, done,
                   pass, launched, finished, keys, calls, history, budget>>

\* UpdateTargetLock with a bug: the unit locks its own node, not the target.
UpdateOwnLock(u) ==
    /\ u \in units
    /\ u.pc = "tlock"
    /\ CanLock(nodes[u.node])
    /\ nodes' = [nodes EXCEPT ![u.node].writer = TRUE]
    /\ Becomes(u, [u EXCEPT !.pc = "add"])
    /\ UNCHANGED <<NumCPU, capacity, count, index, pc, frame, i, flight, j, done,
                   pass, launched, finished, keys, calls, history, budget>>

\* nodes[target].Lock()
UpdateTargetLock(u) ==
    /\ u \in units
    /\ u.pc = "tlock"
    /\ CanLock(nodes[u.target])
    /\ nodes' = [nodes EXCEPT ![u.target].writer = TRUE]
    /\ Becomes(u, [u EXCEPT !.pc = "add"])
    /\ UNCHANGED <<NumCPU, capacity, count, index, pc, frame, i, flight, j, done,
                   pass, launched, finished, keys, calls, history, budget>>

\* nodes[target].weight[b] += aa * weight
Pushed(w, aa, weight) == RAdd(w, RMul(aa, weight))

\* nodes[target].weight[b] += aa * weight, its load: the unit holds what the
\* slot held
UpdateAddLoad(u) ==
    /\ u \in units
    /\ u.pc = "add"
    /\ Becomes(u, [u EXCEPT !.pc = "store", !.bb = nodes[u.target].weight[b]])
    /\ UNCHANGED <<NumCPU, graph, pc, frame, i, flight, j, done,
                   pass, launched, finished, keys, calls, history, budget>>

\* nodes[target].weight[b] += aa * weight, its store; nodes[target].Unlock();
\* and the range's next key
UpdateAdd(u) ==
    /\ u \in units
    /\ u.pc = "store"
    /\ nodes' = [nodes EXCEPT
                    ![u.target].weight[b] =
                        Pushed(u.bb, u.aa, nodes[u.node].edges[u.target]),
                    ![u.target].writer = FALSE]
    /\ NextEdge(u, u)
    /\ UNCHANGED <<NumCPU, capacity, count, index, pc, frame, i, flight, j, done,
                   pass, launched, finished, keys, calls, history, budget>>

\* node.Lock()
UpdateLock(u) ==
    /\ u \in units
    /\ u.pc = "lock"
    /\ CanLock(nodes[u.node])
    /\ nodes' = [nodes EXCEPT ![u.node].writer = TRUE]
    /\ Becomes(u, [u EXCEPT !.pc = "load"])
    /\ UNCHANGED <<NumCPU, capacity, count, index, pc, frame, i, flight, j, done,
                   pass, launched, finished, keys, calls, history, budget>>

\* bb := node.weight[b]
UpdateAdjustLoad(u) ==
    /\ u \in units
    /\ u.pc = "load"
    /\ Becomes(u, [u EXCEPT !.pc = "adjust", !.bb = nodes[u.node].weight[b]])
    /\ UNCHANGED <<NumCPU, graph, pc, frame, i, flight, j, done,
                   pass, launched, finished, keys, calls, history, budget>>

\* UpdateAdjust with a bug: node.Unlock() is left out.
UpdateAdjustKeepsLock(u) ==
    /\ u \in units
    /\ u.pc = "adjust"
    /\ nodes' = [nodes EXCEPT ![u.node].weight[b] = RAdd(u.bb, u.adjustment)]
    /\ Becomes(u, [u EXCEPT !.pc = "send"])
    /\ UNCHANGED <<NumCPU, capacity, count, index, pc, frame, i, flight, j, done,
                   pass, launched, finished, keys, calls, history, budget>>

\* node.weight[b] = bb + adjustment; node.Unlock()
UpdateAdjust(u) ==
    /\ u \in units
    /\ u.pc = "adjust"
    /\ nodes' = [nodes EXCEPT ![u.node].weight[b] = RAdd(u.bb, u.adjustment),
                              ![u.node].writer = FALSE]
    /\ Becomes(u, [u EXCEPT !.pc = "send"])
    /\ UNCHANGED <<NumCPU, capacity, count, index, pc, frame, i, flight, j, done,
                   pass, launched, finished, keys, calls, history, budget>>

\* Sent with a bug: the unit returns without signalling.
SentNothing(d) == d

\* The channel after "done <- true".
Sent(d) == d + 1

\* done <- true, which waits while the buffer is full; the goroutine returns.
Send(u) ==
    /\ u \in units
    /\ u.pc = "send"
    /\ done < DoneCap
    /\ done' = Sent(done)
    /\ units' = units \ {u}
    /\ finished' = finished \cup {u.node}
    /\ UNCHANGED <<NumCPU, graph, pc, frame, i, flight, j, pass, launched, keys,
                   calls, history, budget>>

\* ------------------------------------------------ Rank: the call as a whole

\* The weight of node m's next slot after every source in S has run
\* "nodes[target].weight[b] += aa * weight" on it.
RECURSIVE PushedBy(_, _, _, _, _, _)
PushedBy(w, ns, cur, al, m, S) ==
    IF S = {} THEN w
    ELSE LET n == CHOOSE x \in S : TRUE
         IN  PushedBy(Pushed(w, Damped(al, ns[n].weight[cur]), ns[n].edges[m]),
                      ns, cur, al, m, S \ {n})

\* The nodes after update(adjustment, node) has run for every node.
UpdatedNodes(ns, cur, nxt, al, adj) ==
    [m \in DOMAIN ns |->
        [ns[m] EXCEPT !.weight[nxt] =
            RAdd(PushedBy(@, ns, cur, al, m,
                          {n \in DOMAIN ns : m \in DOMAIN ns[n].edges}),
                 adj)]]

\* for Delta > epsilon { ... }: the nodes and the current slot at its end.
RECURSIVE Iterate(_, _, _, _, _, _, _, _)
Iterate(ns, cur, nxt, d, lk, al, ep, inv) ==
    IF Continue(d, ep)
    THEN LET updated == UpdatedNodes(ns, cur, nxt, al, Adjustment(al, lk, inv))
         IN  Iterate(ZeroedNodes(updated, cur), nxt, cur,
                     MeasuredDelta(updated, cur, nxt),
                     MeasuredLeak(updated, nxt), al, ep, inv)
    ELSE [nodes |-> ns, a |-> cur]

\* Rank(alpha, epsilon, callback) run to its end on g: the graph it leaves
\* and what the callback got.
RankGraph(g, al, ep) ==
    LET inv == RDiv(One, FromInt(Len0(g.nodes)))
        normalized ==
            [n \in DOMAIN g.nodes |->
                [g.nodes[n] EXCEPT !.edges = NormalizedEdges(g.nodes[n])]]
        end == Iterate(InitializedNodes(normalized, 0, inv), 0, 1, One,
                       InitialLeak(normalized, inv), al, ep, inv)
    IN  [graph |-> [g EXCEPT !.nodes = end.nodes],
         calls |-> [id \in Ids |->
                       IF id \in DOMAIN g.index
                       THEN <<end.nodes[g.index[id]].weight[end.a]>>
                       ELSE <<>>]]

\* Rank's entry: the locals and the channel, up to "i, flight := 0, 0".
RankCall(al, ep) ==
    /\ pc = "idle"
    /\ budget.ranks > 0
    /\ budget' = [budget EXCEPT !.ranks = @ - 1]
    /\ alpha' = al
    /\ epsilon' = ep
    /\ Delta' = One
    /\ inverse' = RDiv(One, FromInt(Len0(nodes)))
    /\ done' = 0
    /\ i' = 0
    /\ flight' = 0
    /\ pc' = "normalize"
    /\ rankNo' = rankNo + 1
    /\ calls' = [id \in Ids |-> <<>>]
    /\ pass' = 0
    /\ launched' = <<>>
    /\ finished' = {}
    /\ fresh' = RankGraph(fresh.graph, al, ep)
    /\ UNCHANGED <<NumCPU, graph, leak, a, b, adjustment, j, units, keys,
                   links, prev>>

\* ------------------------------------------------------- the specifications

\* The state after NewGraph64(size...), with NumCPU among cpus and the calls
\* the caller may make.
Start(cpus, sizes, bud) ==
    /\ NumCPU \in cpus
    /\ \E size \in sizes :
          LET g == NewGraph64(size) IN
          /\ capacity = g.capacity
          /\ count = g.count
          /\ index = g.index
          /\ nodes = g.nodes
    /\ pc = "idle"
    /\ alpha = Zero
    /\ epsilon = One
    /\ Delta = Zero
    /\ inverse = Zero
    /\ leak = Zero
    /\ a = 0
    /\ b = 1
    /\ i = 0
    /\ flight = 0
    /\ j = 0
    /\ adjustment = Zero
    /\ done = 0
    /\ units = {}
    /\ keys = {}
    /\ calls = [id \in Ids |-> <<>>]
    /\ links = <<>>
    /\ rankNo = 0
    /\ prev = <<>>
    /\ fresh = Fresh
    /\ pass = 0
    /\ launched = <<>>
    /\ finished = {}
    /\ budget = bud

\* One Rank call with its units in every interleaving.
Init ==
    Start(1..MaxCPU, {<<>>},
          [links |-> MaxLinks, ranks |-> 1, resets |-> MaxResets])

\* Several Rank calls, each with one unit at a time.
SeqInit ==
    Start({1}, Sizes,
          [links |-> MaxLinks, ranks |-> MaxRanks, resets |-> MaxResets])

MainStep ==
    \/ NormalizeLaunch
    \/ NormalizeRefill
    \/ NormalizeDrain
    \/ Initialize
    \/ Loop
    \/ UpdateLaunch
    \/ UpdateRefill
    \/ UpdateDrain
    \/ Measure
    \/ \E key \in Ids : Callback(key)
    \/ Return

UnitStep(u) ==
    \/ Normalize(u)
    \/ UpdateRLock(u)
    \/ UpdateRead(u)
    \/ UpdateTargetLock(u)
    \/ UpdateAddLoad(u)
    \/ UpdateAdd(u)
    \/ UpdateLock(u)
    \/ UpdateAdjustLoad(u)
    \/ UpdateAdjust(u)
    \/ Send(u)

Next ==
    \/ \E source \in Ids, target \in Ids, weight \in Weights :
          Link(source, target, weight)
    \/ \E al \in Alphas, ep \in Epsilons : RankCall(al, ep)
    \/ \E size \in Sizes : Reset(size)
    \/ MainStep
    \/ \E u \in units : UnitStep(u)

Spec == Init /\ [][Next]_vars

SeqSpec == SeqInit /\ [][Next]_vars

\* A caller that builds the cycle of two nodes and ranks it:
\* g.Link(1, 2, 1); g.Link(2, 1, 1); g.Rank(0.85, 0.000001, callback)
CycleAlpha == <<17, 20>>

CycleEpsilon == <<1, 1000000>>

CycleLinks == <<<<1, 2, One>>, <<2, 1, One>>>>

CycleCaller ==
    \/ /\ Len(links) < Len(CycleLinks)
       /\ LET l == CycleLinks[Len(links) + 1] IN Link(l[1], l[2], l[3])
    \/ /\ links = CycleLinks
       /\ RankCall(CycleAlpha, CycleEpsilon)

CycleNext ==
    \/ CycleCaller
    \/ MainStep
    \/ \E u \in units : UnitStep(u)

CycleSpec == Init /\ [][CycleNext]_vars

\* A caller that links WideNodes nodes in pairs, the odd one to itself, and
\* ranks them with an epsilon that asks for no iteration, on a machine with
\* WideCPU units.
WideLinks ==
    [k \in 1..((WideNodes + 1) \div 2) |->
        <<2 * k - 1, IF 2 * k <= WideNodes THEN 2 * k ELSE 2 * k - 1, One>>]

WideAlpha == <<1, 2>>

WideEpsilon == One

WideCaller ==
    \/ /\ Len(links) < Len(WideLinks)
       /\ LET l == WideLinks[Len(links) + 1] IN Link(l[1], l[2], l[3])
    \/ /\ links = WideLinks
       /\ RankCall(WideAlpha, WideEpsilon)

WideInit ==
    Start({WideCPU}, {<<>>},
          [links |-> Len(WideLinks), ranks |-> 1, resets |-> 0])

\* The scheduler runs the main routine and every runnable goroutine.
Fairness ==
    /\ WF_vars(MainStep)
    /\ WF_vars(\E u \in units : UnitStep(u))

FairSpec == Init /\ [][Next]_vars /\ Fairness

\* A caller that links and ranks once, on a machine with up to MaxCPU units,
\* and the wide caller on its own.
LiveCaller ==
    \/ \E source \in Ids, target \in Ids, weight \in Weights :
          Link(source, target, weight)
    \/ \E al \in Alphas, ep \in Epsilons : RankCall(al, ep)

LiveInit ==
    \/ Start(1..MaxCPU, {<<>>},
             [links |-> MaxLinks, ranks |-> 1, resets |-> 0])
    \/ WideInit

LiveNext ==
    \/ NumCPU <= MaxCPU /\ LiveCaller
    \/ NumCPU = WideCPU /\ WideCaller
    \/ MainStep
    \/ \E u \in units : UnitStep(u)

LiveSpec == LiveInit /\ [][LiveNext]_vars /\ Fairness

\* ------------------------------------------------------------ the claims

\* The ids named by a Link call since construction or the last Reset.
Seen ==
    {links[k][1] : k \in DOMAIN links} \cup {links[k][2] : k \in DOMAIN links}

\* A Rank call has just returned: nothing was called since.
Returned == pc = "idle" /\ prev # <<>>

\* C1: a Rank call invokes the callback exactly once for every id named by a
\* Link call since the last Reset, and for no other id; while the call runs no
\* id has been called twice and no other id has been called.
C1_CallbackOncePerId ==
    /\ pc \notin {"idle", "panic"} =>
          \A id \in Ids : Len(calls[id]) <= (IF id \in Seen THEN 1 ELSE 0)
    /\ Returned =>
          \A id \in Ids : Len(calls[id]) = (IF id \in Seen THEN 1 ELSE 0)

\* A Rank call returned on a graph built after a Reset, with an id that was
\* only ever a target.
C1_Witness ==
    /\ Returned
    /\ budget.resets < MaxResets
    /\ Seen = {1, 2}
    /\ \A k \in DOMAIN links : links[k][1] = 1 /\ links[k][2] = 2
    /\ Len(calls[2]) = 1

\* The sum of the current slots.
CurrentSum == RSum([n \in DOMAIN nodes |-> nodes[n].weight[a]], DOMAIN nodes)

\* C2: in the first Rank call on a graph of N >= 1 nodes built by Link with
\* positive weights, the current slots sum to 1 after the initialization and
\* after every completed iteration, and the ranks given to the callback sum to 1.
C2_Conservation ==
    (rankNo = 1 /\ Len0(nodes) >= 1) =>
        /\ pc \in {"loop", "callback"} => CurrentSum = One
        /\ Returned => RSum([id \in Seen |-> calls[id][1]], Seen) = One

\* Two iterations are complete on three nodes, one of them dangling, with the
\* ranks no longer uniform.
C2_Witness ==
    /\ rankNo = 1
    /\ pc = "loop"
    /\ pass = 2
    /\ Len0(nodes) = 3
    /\ Dangling(nodes) # {}
    /\ nodes[0].weight[a] # nodes[1].weight[a]

RanTwice ==
    /\ pc = "idle"
    /\ Len(prev) = 2
    /\ prev[1].alpha = prev[2].alpha
    /\ prev[1].epsilon = prev[2].epsilon

\* C4: the second of two such calls gives every node a rank within epsilon
\* of the rank the first call gave it.
C4_IdempotentRerun ==
    RanTwice =>
        \A id \in Seen :
            RLe(AbsDifference(prev[1].calls[id][1], prev[2].calls[id][1]),
                prev[1].epsilon)

\* C5: a Rank call on a graph without nodes launches no unit, never waits,
\* runs its loop at most once, never invokes the callback, and returns.
C5_EmptyRank ==
    Len0(nodes) = 0 =>
        /\ pc \notin {"idle", "panic"} =>
              /\ \A id \in Ids : calls[id] = <<>>
              /\ units = {}
              /\ pass <= 1
              /\ ENABLED MainStep
        /\ Returned => \A id \in Ids : calls[id] = <<>>

\* Rank reaches its callback loop on a graph emptied by Reset, after one
\* iteration whose adjustment was computed from 1/0.
C5_Witness ==
    /\ pc = "callback"
    /\ Len0(nodes) = 0
    /\ keys = {}
    /\ pass = 1
    /\ IsNaN(adjustment)
    /\ budget.resets < MaxResets
    /\ budget.links < MaxLinks

\* The weights of the Link calls among K, summed.
LinkSum(K) == RSum([k \in DOMAIN links |-> links[k][3]], K)

\* The stored weight of the edge s -> t, 0 when there is none.
RawEdge(s, t) ==
    IF /\ s \in DOMAIN index
       /\ t \in DOMAIN index
       /\ index[t] \in DOMAIN nodes[index[s]].edges
    THEN nodes[index[s]].edges[index[t]]
    ELSE Zero

\* The stored outbound total of s, 0 when s is unknown.
Outbound(s) == IF s \in DOMAIN index THEN nodes[index[s]].outbound ELSE Zero

\* C6: before any Rank call, the stored weight of every edge s -> t is the sum
\* of the weights of the Link(s, t, w) calls, and the outbound total of s is
\* the sum of the weights of the Link calls with source s.
C6_LinkAccumulates ==
    rankNo = 0 =>
        \A s \in Ids :
            /\ Outbound(s) = LinkSum({k \in DOMAIN links : links[k][1] = s})
            /\ \A t \in Ids :
                  RawEdge(s, t) =
                      LinkSum({k \in DOMAIN links :
                                  links[k][1] = s /\ links[k][2] = t})

\* Link(1, 2, 1.0) twice: the edge holds 2.0.
C6_Witness ==
    /\ rankNo = 0
    /\ links = <<<<1, 2, One>>, <<1, 2, One>>>>
    /\ RawEdge(1, 2) = FromInt(2)
    /\ Outbound(1) = FromInt(2)

\* The index maps the ids seen since the last Reset one-to-one onto
\* 0..count-1, which are the positions of nodes and hold every edge's target.
IndexWellFormed ==
    /\ DOMAIN index = Seen
    /\ \A id \in DOMAIN index : \A other \in DOMAIN index :
          index[id] = index[other] => id = other
    /\ {index[id] : id \in DOMAIN index} = 0..(count - 1)
    /\ DOMAIN nodes = 0..(count - 1)
    /\ Len0(nodes) = count
    /\ \A n \in DOMAIN nodes : DOMAIN nodes[n].edges \subseteq 0..(count - 1)

\* count does not decrease and no id changes its position.
IndexStable ==
    /\ count' >= count
    /\ \A id \in DOMAIN index : id \in DOMAIN index' /\ index'[id] = index[id]

\* C7: in every state the index is a bijection from the ids seen since the
\* last Reset onto [0, count), count is the length of nodes and every edge's
\* target key is in [0, count); every step other than a Reset leaves count no
\* smaller and every id at its position.
C7_IndexWellFormed ==
    /\ []IndexWellFormed
    /\ [][(\E size \in Sizes : Reset(size)) \/ IndexStable]_vars

\* A Rank call has run on a graph of two nodes, one with a self-loop, built
\* after a Reset.
C7_Witness ==
    /\ pc = "idle"
    /\ budget.resets < MaxResets
    /\ rankNo >= 1
    /\ count = 2
    /\ \E n \in DOMAIN nodes : n \in DOMAIN nodes[n].edges

\* C9: in the normalization pass and in every update pass, the units launched
\* that have not yet sent on done are never more than NumCPU.
C9_BoundedConcurrency == Cardinality(units) <= NumCPU

\* An update pass on three nodes with a cap of two: both places are taken and
\* a node is still waiting for one.
C9_Witness ==
    /\ pc = "update_refill"
    /\ NumCPU = 2
    /\ Len0(nodes) = 3
    /\ i < Len0(nodes)
    /\ Cardinality(units) = NumCPU

\* The main routine stands between two passes or outside Rank.
BetweenPasses == pc \in {"idle", "initialize", "loop", "delta", "callback"}

\* C10: a pass launches one unit for each node, in order, each once; when
\* the main routine goes on to the initialization or to the delta computation
\* every one of them has signalled, no unit is left and done is empty; so the
\* units alive at any time belong to the pass under way.
C10_PassBarrier ==
    /\ BetweenPasses => units = {} /\ done = 0
    /\ pc \in {"initialize", "delta"} =>
          /\ launched = [k \in 1..Len0(nodes) |-> k - 1]
          /\ finished = DOMAIN nodes
    /\ \A u \in units : u.pass = pass
    /\ \A u \in units : \A v \in units : u.node = v.node => u = v

\* The second update pass of a Rank call on three nodes, two at a time, is
\* over and the main routine is about to measure Delta.
C10_Witness ==
    /\ pc = "delta"
    /\ pass >= 2
    /\ NumCPU = 2
    /\ Len0(nodes) = 3
    /\ finished = {0, 1, 2}

\* What a graph is to its caller: the capacity asked of make() is not part.
View(g) == [count |-> g.count, index |-> g.index, nodes |-> g.nodes]

\* C8: after Reset(size...), whatever size, count is 0 and index and nodes are
\* empty; from then on the graph is, after every call, what a graph from
\* NewGraph64() is after the same Link and Rank calls, and every Rank call
\* gives the callback what it gives it there.
C8_ResetDiscards ==
    /\ (pc = "idle" /\ links = <<>> /\ rankNo = 0) =>
          count = 0 /\ index = <<>> /\ nodes = <<>>
    /\ pc = "idle" => View(TheGraph) = View(fresh.graph)
    /\ Returned => calls = fresh.calls

\* A graph that was linked and ranked, then Reset with a size, linked and
\* ranked again: the callback got the ranks of the new graph.
C8_Witness ==
    /\ Returned
    /\ budget.resets < MaxResets
    /\ capacity = 0
    /\ budget.ranks = 0
    /\ Len(links) = 1
    /\ budget.links = 0
    /\ Len(calls[1]) = 1

\* What the sources with an edge to t push into it in one pass: the sum of
\* alpha * current(s) * prob(s, t).
Contributions(t) ==
    LET sources == {s \in DOMAIN nodes : t \in DOMAIN nodes[s].edges}
    IN  RSum([s \in sources |->
                 RMul(RMul(alpha, nodes[s].weight[a]), nodes[s].edges[t])],
             sources)

\* C11: in the first Rank call on a graph every update pass starts with all
\* next slots at 0, and at its barrier, in every interleaving and for every
\* NumCPU, the next slot of every node t holds the adjustment plus the sum
\* over the nodes s with an edge to t of alpha * current(s) * prob(s, t).
C11_NoLostUpdates ==
    rankNo = 1 =>
        /\ (pc = "update" /\ i = 0) =>
              \A t \in DOMAIN nodes : RIsZero(nodes[t].weight[b])
        /\ pc = "delta" =>
              \A t \in DOMAIN nodes :
                  nodes[t].weight[b] = RAdd(Contributions(t), adjustment)

\* Two units at a time have pushed into one node, which two nodes link to,
\* and the pass is at its barrier.
C11_Witness ==
    /\ pc = "delta"
    /\ NumCPU = 2
    /\ alpha = <<1, 2>>
    /\ \E t \in DOMAIN nodes :
          Cardinality({s \in DOMAIN nodes : t \in DOMAIN nodes[s].edges}) = 2

\* C12: on a fresh graph after Link(1, 2, 1) and Link(2, 1, 1), Rank with
\* alpha = 0.85 and epsilon = 0.000001 gives the callback the rank 0.5 for
\* node 1 and for node 2.
C12_TwoNodeCycle ==
    (Returned /\ links = CycleLinks /\ prev[1].alpha = CycleAlpha
              /\ prev[1].epsilon = CycleEpsilon) =>
        /\ calls[1] = <<(<<1, 2>>)>>
        /\ calls[2] = <<(<<1, 2>>)>>

\* The cycle was ranked with two units at a time and Rank returned.
C12_Witness ==
    /\ Returned
    /\ NumCPU = 2
    /\ links = CycleLinks
    /\ prev[1].alpha = CycleAlpha
    /\ prev[1].epsilon = CycleEpsilon
    /\ Len(calls[1]) = 1
    /\ Len(calls[2]) = 1

\* The node whose exclusive lock the unit u holds: the target between
\* nodes[target].Lock() and Unlock(), its own node between node.Lock() and
\* node.Unlock().
Exclusive(u) ==
    IF u.pc \in {"add", "store"} THEN {u.target}
    ELSE IF u.pc \in {"load", "adjust"} THEN {u.node}
    ELSE {}

\* The node whose read lock the unit u holds: its own, while it reads the
\* current slot.
Shared(u) == IF u.pc = "read" THEN {u.node} ELSE {}

\* A node's lock is held exclusively by at most one unit and then by no
\* reader; the units about to read a current slot or inside a += hold the
\* lock of the node concerned.
LockDiscipline ==
    \A n \in DOMAIN nodes :
        LET writers == {u \in units : n \in Exclusive(u)}
            readers == {u \in units : n \in Shared(u)}
        IN  /\ nodes[n].writer = (writers # {})
            /\ Cardinality(writers) <= 1
            /\ nodes[n].readers = Cardinality(readers)
            /\ writers # {} => readers = {}

\* The main routine is inside the pool of an update pass.
Updating == pc \in {"update", "update_refill", "update_drain"}

\* A step of the pass changes the weights of a node only by a unit that holds
\* the node's exclusive lock, and then not the current slot; it changes
\* neither outbound nor edges.
WritesUnderLock ==
    Updating =>
        \A n \in DOMAIN nodes :
            /\ nodes'[n].weight # nodes[n].weight =>
                  /\ \E u \in units : n \in Exclusive(u) /\ u \notin units'
                  /\ nodes'[n].weight[a] = nodes[n].weight[a]
            /\ nodes'[n].outbound = nodes[n].outbound
            /\ nodes'[n].edges = nodes[n].edges

\* C14: in the update pass a unit reads a node's current slot holding the
\* node's read lock and writes a node's next slot holding the node's
\* exclusive lock; two units are never inside a read-modify-write of one
\* node's weights; no unit writes a current slot, outbound or edges.
C14_LockDiscipline ==
    /\ []LockDiscipline
    /\ [][WritesUnderLock]_vars

\* One unit is between the load and the store of its += on a node while
\* another waits for the lock of the same node.
C14_Witness ==
    \E u \in units : \E v \in units :
        /\ u.pc = "store"
        /\ v.pc = "tlock"
        /\ v.target = u.target
        /\ nodes[u.target].writer

\* The sum of the values of a node's edges.
EdgeSum(node) == RSum(node.edges, DOMAIN node.edges)

\* The normalization pass of the Rank call under way, or of the last one
\* since the graph was linked or Reset, is over.
NormalizationDone ==
    \/ pc \in {"initialize", "loop", "update", "update_refill", "update_drain",
               "delta", "callback"}
    \/ pc = "idle" /\ prev # <<>>

\* C15: once the normalization pass of a Rank call is over, of the first call
\* or of a later one on the same graph, the edges of every node with
\* outbound > 0 sum to 1.
C15_EdgesSumToOne ==
    NormalizationDone =>
        \A n \in DOMAIN nodes :
            RGt(nodes[n].outbound, Zero) => EdgeSum(nodes[n]) = One

\* The main routine is about to launch the first unit of an update pass.
PassStarts == pc = "update" /\ i = 0 /\ flight = 0

\* C16: when an update pass starts, in whichever iteration of whichever Rank
\* call, every node's next slot holds 0, and in the first iteration every
\* node's current slot holds 1/N.
C16_CleanNextBuffer ==
    PassStarts =>
        \A n \in DOMAIN nodes :
            /\ RIsZero(nodes[n].weight[b])
            /\ pass = 1 => nodes[n].weight[a] = inverse

\* The sum of the current slots of the nodes with outbound == 0.
DanglingMass ==
    RSum([n \in DOMAIN nodes |-> nodes[n].weight[a]], Dangling(nodes))

\* C17: in every iteration of a Rank call on N >= 1 nodes the adjustment is
\* (1 - alpha)/N + alpha * leak/N, with leak the sum of the current slots of
\* exactly the nodes with outbound == 0 as the iteration starts; in the first
\* iteration that is d/N for d such nodes.
C17_LeakBookkeeping ==
    (Updating /\ Len0(nodes) >= 1) =>
        LET N == FromInt(Len0(nodes))
            d == FromInt(Cardinality(Dangling(nodes)))
        IN  /\ adjustment = RAdd(RDiv(RSub(One, alpha), N),
                                 RDiv(RMul(alpha, DanglingMass), N))
            /\ leak = DanglingMass
            /\ pass = 1 => DanglingMass = RDiv(d, N)

\* A later iteration on a graph with a dangling node and a node that is not,
\* with alpha > 0.
C17_Witness ==
    /\ Updating
    /\ pass >= 2
    /\ alpha = <<1, 2>>
    /\ Dangling(nodes) # {}
    /\ Dangling(nodes) # DOMAIN nodes
    /\ ~RIsZero(DanglingMass)

\* C18: on N >= 1 nodes, for every epsilon > 0, Rank reaches its callback loop
\* only after an update pass has run and its measured Delta is at most
\* epsilon; the callback never gets the uniform prior of a call in which no
\* iteration ran.
C18_StoppingRule ==
    (pc = "callback" /\ Len0(nodes) >= 1) =>
        /\ pass >= 1
        /\ RLe(Delta, epsilon)

\* -------------------------------------------- the sequential variant, Graph

\* New()
GraphNew == [edges |-> <<>>, nodes |-> <<>>]

\* self.nodes[id] = &node{weight: 0, outbound: 0} unless the id is known
GraphEnsure(ns, id) ==
    IF id \in DOMAIN ns THEN ns
    ELSE ns @@ (id :> [weight |-> Zero, outbound |-> Zero])

\* Graph.Link(source, target, weight)
GraphLink(g, source, target, weight) ==
    LET n1 == GraphEnsure(g.nodes, source)
        n2 == [n1 EXCEPT ![source].outbound = RAdd(@, weight)]
        n3 == GraphEnsure(n2, target)
        e1 == IF source \in DOMAIN g.edges THEN g.edges
              ELSE g.edges @@ (source :> <<>>)
    IN  [edges |-> [e1 EXCEPT ![source] = AddEdge(@, target, weight)],
         nodes |-> n3]

\* The Graph after the first k of the Link calls ls.
RECURSIVE GraphLinked(_, _)
GraphLinked(ls, k) ==
    IF k = 0 THEN GraphNew
    ELSE GraphLink(GraphLinked(ls, k - 1), ls[k][1], ls[k][2], ls[k][3])

\* for source := range self.edges { if outbound > 0 { edges /= outbound } };
\* for key := range self.nodes { weight = inverse }
GraphPrepared(g, inv) ==
    [edges |-> [s \in DOMAIN g.edges |->
                   IF RGt(g.nodes[s].outbound, Zero)
                   THEN [t \in DOMAIN g.edges[s] |->
                            RDiv(g.edges[s][t], g.nodes[s].outbound)]
                   ELSE g.edges[s]],
     nodes |-> [key \in DOMAIN g.nodes |-> [g.nodes[key] EXCEPT !.weight = inv]]]

\* GraphLeak with a bug: "leak *= alpha" is left out.
GraphLeakUndamped(g, al) ==
    RSum([key \in DOMAIN g.nodes |-> g.nodes[key].weight],
         {key \in DOMAIN g.nodes : RIsZero(g.nodes[key].outbound)})

\* leak after "leak += value.weight" for every node with outbound == 0 and
\* "leak *= alpha"
GraphLeak(g, al) ==
    RMul(RSum([key \in DOMAIN g.nodes |-> g.nodes[key].weight],
              {key \in DOMAIN g.nodes : RIsZero(g.nodes[key].outbound)}),
         al)

\* One run of the loop body: the graph and Delta after it.
GraphIteration(g, al, inv) ==
    LET old == [key \in DOMAIN g.nodes |-> g.nodes[key].weight]
        leaked == GraphLeak(g, al)
        pushed(t) ==
            LET sources == {s \in DOMAIN g.edges : t \in DOMAIN g.edges[s]}
            IN  RSum([s \in sources |->
                         RMul(RMul(al, old[s]), g.edges[s][t])], sources)
        new == [key \in DOMAIN g.nodes |->
                   RAdd(pushed(key),
                        RAdd(RMul(RSub(One, al), inv), RMul(leaked, inv)))]
    IN  [graph |-> [g EXCEPT !.nodes =
                       [key \in DOMAIN g.nodes |-> [@[key] EXCEPT !.weight = new[key]]]],
         Delta |-> RSum([key \in DOMAIN g.nodes |->
                            AbsDifference(new[key], old[key])],
                        DOMAIN g.nodes),
         iterations |-> 0]

\* for Delta > epsilon { ... }, at most k runs of it.
RECURSIVE GraphLoop(_, _, _, _, _)
GraphLoop(st, al, ep, inv, k) ==
    IF k = 0 \/ ~RGt(st.Delta, ep) THEN st
    ELSE GraphLoop([GraphIteration(st.graph, al, inv)
                       EXCEPT !.iterations = st.iterations + 1],
                   al, ep, inv, k - 1)

\* Graph.Rank(alpha, epsilon, callback) on the Graph after the Link calls
\* ls, as it stands after at most k iterations.
GraphRank(ls, al, ep, k) ==
    LET g   == GraphLinked(ls, Len(ls))
        inv == RDiv(One, FromInt(Cardinality(DOMAIN g.nodes)))
    IN  GraphLoop([graph |-> GraphPrepared(g, inv), Delta |-> One,
                   iterations |-> 0], al, ep, inv, k)

\* The sequential variant, given the same Link calls and parameters, after
\* as many iterations as the concurrent one has made.
Sequential == GraphRank(links, alpha, epsilon, pass)

\* C19: in the first Rank call after the Link calls, at the head of the loop
\* the concurrent variant has made as many iterations as the sequential one
\* makes in as many tries, and holds the same Delta and the same weight for
\* every id; when it leaves the loop the sequential one leaves it too, and the
\* callback gets the sequential variant's weight for every id.
C19_SameAsSequential ==
    rankNo = 1 =>
        /\ pc \in {"loop", "callback"} =>
              /\ Sequential.iterations = pass
              /\ Sequential.Delta = Delta
              /\ DOMAIN Sequential.graph.nodes = DOMAIN index
              /\ \A id \in DOMAIN index :
                    nodes[index[id]].weight[a] = Sequential.graph.nodes[id].weight
        /\ pc = "callback" =>
              /\ ~RGt(Sequential.Delta, epsilon)
              /\ \A id \in DOMAIN index :
                    calls[id] = IF id \in keys THEN <<>>
                                ELSE <<Sequential.graph.nodes[id].weight>>

\* Two units at a time have made two iterations on three nodes, one of them
\* dangling, and the callback has been given every rank.
C19_Witness ==
    /\ pc = "callback"
    /\ keys = {}
    /\ NumCPU = 2
    /\ pass >= 2
    /\ Len0(nodes) = 3
    /\ Dangling(nodes) # {}
    /\ alpha = <<1, 2>>

\* The read locks held on the nodes in S, counted.
RECURSIVE ReadLocks(_)
ReadLocks(S) ==
    IF S = {} THEN 0
    ELSE LET n == CHOOSE x \in S : TRUE
         IN  nodes[n].readers + ReadLocks(S \ {n})

\* The locks held on all nodes, counted.
LocksHeld ==
    Cardinality({n \in DOMAIN nodes : nodes[n].writer}) + ReadLocks(DOMAIN nodes)

\* The units between a Lock or RLock and the Unlock or RUnlock after it.
Holders == {u \in units : u.pc \in {"read", "add", "store", "load", "adjust"}}

\* The main routine is inside the pool of a pass.
Pooling ==
    pc \in {"normalize", "normalize_refill", "normalize_drain",
            "update", "update_refill", "update_drain"}

\* C20: there are as many locks held as there are units between a lock and
\* its unlock, each of which holds one, so no unit holds two and none holds
\* one while it sends on done; under fair scheduling, with NumCPU within or
\* beyond the buffer of done, every pass reaches its barrier, where every
\* unit launched has completed.
C20_DeadlockFreedom ==
    /\ [](LocksHeld = Cardinality(Holders))
    /\ [](units # {} => Pooling)
    /\ Pooling ~> (BetweenPasses /\ units = {})

\* With more units than the buffer of done holds, the buffer is full and a
\* unit waits to send.
C20_Witness ==
    /\ NumCPU = WideCPU
    /\ done = DoneCap
    /\ \E u \in units : u.pc = "send"

\* ------------------------------ float64 kept to 2 * FixBits binary places
\* The exact fractions above outgrow the integers after a few iterations at
\* alpha = 0.85.  Here a float64 x >= 0 is <<hi, lo>> with
\* x = (hi * FixBase + lo) / FixBase^2, cut off below the last place.

FixBits == 28

FixBase == 2^FixBits

FixHalf == 2^(FixBits \div 2)

FixZero == <<0, 0>>

FixUnit == <<FixBase, 0>>

\* x + y
FixAdd(x, y) ==
    LET lo == x[2] + y[2]
    IN  <<x[1] + y[1] + (lo \div FixBase), lo % FixBase>>

\* x < y
FixLess(x, y) == x[1] < y[1] \/ (x[1] = y[1] /\ x[2] < y[2])

\* x - y, for x >= y
FixSub(x, y) ==
    LET lo == x[2] - y[2]
    IN  IF lo < 0 THEN <<x[1] - y[1] - 1, lo + FixBase>> ELSE <<x[1] - y[1], lo>>

\* |x - y|: the difference, negated when below 0
FixAbsDifference(x, y) == IF FixLess(x, y) THEN FixSub(y, x) ELSE FixSub(x, y)

\* m * n as <<hi, lo>> to the base FixBase, for m, n < 2 * FixBase
FixProduct(m, n) ==
    LET m1  == m \div FixHalf
        m0  == m % FixHalf
        n1  == n \div FixHalf
        n0  == n % FixHalf
        mid == m1 * n0 + m0 * n1
        low == (mid % FixHalf) * FixHalf + m0 * n0
    IN  <<m1 * n1 + (mid \div FixHalf) + (low \div FixBase), low % FixBase>>

\* x * y
FixTimes(x, y) ==
    LET whole == FixProduct(x[1], y[1])
        lo    == whole[2] + FixProduct(x[1], y[2])[1] + FixProduct(x[2], y[1])[1]
    IN  <<whole[1] + (lo \div FixBase), lo % FixBase>>

FixMul(x, y) == Strict(FixTimes, x, y)

\* <<q, r>> with r * 2^k = q * y + r' and r' < y the remainder r, for r < y
RECURSIVE FixPlaces(_, _, _)
FixPlaces(r, y, k) ==
    IF k = 0 THEN <<0, r>>
    ELSE LET bit  == IF 2 * r >= y THEN 1 ELSE 0
             rest == FixPlaces(2 * r - bit * y, y, k - 1)
         IN  <<bit * 2^(k - 1) + rest[1], rest[2]>>

\* m / n for integers m >= 0, n > 0
FixQuotient(m, n) ==
    LET hi == FixPlaces(m % n, n, FixBits)
        lo == FixPlaces(hi[2], n, FixBits)
    IN  <<(m \div n) * FixBase + hi[1], lo[1]>>

\* The float64 nearest below the fraction r, and that of r / s
FixOf(r) == FixQuotient(r[1], r[2])

FixDiv(r, s) == FixQuotient(r[1] * s[2], r[2] * s[1])

\* The sum of f[k] over k in S
RECURSIVE FixSum(_, _)
FixSum(f, S) ==
    IF S = {} THEN FixZero
    ELSE LET k == CHOOSE x \in S : TRUE IN Strict(FixAdd, f[k], FixSum(f, S \ {k}))

\* ------------------- the chain of three nodes, ranked at alpha = 0.85
\* Rank run one pass at a time, a unit after the other, on float64 kept to
\* 2 * FixBits places.

ChainAlpha == <<17, 20>>

ChainEpsilon == <<1, 1000000>>

ChainWeights == {<<1, 2>>, FromInt(1), FromInt(2), FromInt(3)}

\* g.Link(1, 2, w); g.Link(2, 3, w)
ChainLinks(w) == <<<<1, 2, w>>, <<2, 3, w>>>>

ChainLinked == \E w \in ChainWeights : links = ChainLinks(w)

ChainCaller ==
    \E w \in ChainWeights :
        /\ Len(links) < Len(ChainLinks(w))
        /\ links = SubSeq(ChainLinks(w), 1, Len(links))
        /\ LET l == ChainLinks(w)[Len(links) + 1] IN Link(l[1], l[2], l[3])

\* node.edges[target] /= outbound, where outbound > 0
ChainNormalized(node) ==
    [t \in DOMAIN node.edges |->
        IF RGt(node.outbound, Zero) THEN FixDiv(node.edges[t], node.outbound)
        ELSE FixOf(node.edges[t])]

\* Rank up to its loop: 1 / len(nodes), the normalize pass, the initialization.
ChainEnter ==
    /\ pc = "idle"
    /\ ChainLinked
    /\ budget.ranks > 0
    /\ budget' = [budget EXCEPT !.ranks = @ - 1]
    /\ alpha' = FixOf(ChainAlpha)
    /\ epsilon' = FixOf(ChainEpsilon)
    /\ Delta' = FixUnit
    /\ inverse' = FixQuotient(1, Len0(nodes))
    /\ a' = 0
    /\ b' = 1
    /\ nodes' = [n \in DOMAIN nodes |->
                    [nodes[n] EXCEPT
                        !.edges = ChainNormalized(nodes[n]),
                        !.weight = (0 :> FixQuotient(1, Len0(nodes))) @@
                                   (1 :> FixOf(nodes[n].weight[1]))]]
    /\ leak' = FixSum([n \in DOMAIN nodes |-> FixQuotient(1, Len0(nodes))],
                      Dangling(nodes))
    /\ pc' = "loop"
    /\ rankNo' = rankNo + 1
    /\ calls' = [id \in Ids |-> <<>>]
    /\ pass' = 0
    /\ UNCHANGED <<NumCPU, capacity, count, index, adjustment, i, flight, j,
                   done, units, launched, finished, keys, links, prev, fresh>>

\* ChainAdjustment with a bug: the dangling nodes' share is left out.
ChainAdjustmentNoLeak(al, lk, inv) == FixMul(FixSub(FixUnit, al), inv)

\* adjustment := (1-alpha)*inverse + alpha*leak*inverse
ChainAdjustment(al, lk, inv) ==
    FixAdd(FixMul(FixSub(FixUnit, al), inv), FixMul(FixMul(al, lk), inv))

\* The next slot of node m after every update(adjustment, node) has run:
\* aa * weight from every source with an edge to m, and the adjustment.
ChainUpdated(ns, cur, nxt, al, adj, m) ==
    LET sources == {s \in DOMAIN ns : m \in DOMAIN ns[s].edges}
    IN  FixAdd(FixAdd(ns[m].weight[nxt],
                      FixSum([s \in sources |->
                                 FixMul(FixMul(al, ns[s].weight[cur]),
                                        ns[s].edges[m])], sources)),
               adj)

\* One run of the loop body: the adjustment, the update pass, Delta and leak,
\* the zeroing of the current slots and the swap.
ChainIterate ==
    /\ pc = "loop"
    /\ FixLess(epsilon, Delta)
    /\ LET adj == ChainAdjustment(alpha, leak, inverse)
           new == [m \in DOMAIN nodes |-> ChainUpdated(nodes, a, b, alpha, adj, m)]
       IN  /\ adjustment' = adj
           /\ Delta' = FixSum([n \in DOMAIN nodes |->
                                  FixAbsDifference(nodes[n].weight[a], new[n])],
                              DOMAIN nodes)
           /\ leak' = FixSum(new, Dangling(nodes))
           /\ nodes' = [n \in DOMAIN nodes |->
                           [nodes[n] EXCEPT !.weight = (a :> FixZero) @@ (b :> new[n])]]
    /\ a' = b
    /\ b' = a
    /\ pass' = pass + 1
    /\ UNCHANGED <<NumCPU, capacity, count, index, pc, alpha, epsilon, inverse,
                   i, flight, j, done, units, launched, finished, keys, calls,
                   history, budget>>

\* The loop condition fails: Rank turns to "for key, value := range g.index".
ChainLeave ==
    /\ pc = "loop"
    /\ ~FixLess(epsilon, Delta)
    /\ keys' = RangeIndex
    /\ pc' = "callback"
    /\ UNCHANGED <<NumCPU, graph, frame, pool, calls, history, budget>>

ChainInit ==
    Start({1}, {<<>>}, [links |-> 2, ranks |-> 1, resets |-> 0])

ChainNext ==
    \/ ChainCaller
    \/ ChainEnter
    \/ ChainIterate
    \/ ChainLeave
    \/ \E key \in Ids : Callback(key)
    \/ Return

ChainSpec == ChainInit /\ [][ChainNext]_vars

\* C13: on a fresh graph after Link(1, 2, w) and Link(2, 3, w), w > 0, Rank
\* with alpha = 0.85 and epsilon = 0.000001 gives the callback ranks with
\* rank(3) > rank(2) > rank(1) whose sum differs from 1 by at most 0.000001.
C13_ThreeNodeChain ==
    (Returned /\ ChainLinked) =>
        LET sum == FixAdd(FixAdd(calls[1][1], calls[2][1]), calls[3][1])
        IN  /\ FixLess(calls[2][1], calls[3][1])
            /\ FixLess(calls[1][1], calls[2][1])
            /\ ~FixLess(FixOf(ChainEpsilon), FixAbsDifference(sum, FixUnit))

\* Rank returned on the chain with weight 2 on both links, the callback
\* having got a rank for each of the three nodes.
C13_Witness ==
    /\ Returned
    /\ links = ChainLinks(FromInt(2))
    /\ \A id \in 1..3 : Len(calls[id]) = 1
    /\ FixLess(FixZero, calls[1][1])

=============================================================================
